---- MODULE Spec2Model ----
(***************************************************************************)
(* toyou-cleanup: the picture reconciliation (get_used_pictures) and the   *)
(* deletion pipeline (cleanup_pictures) of src/cleanups/picture.rs.        *)
(*                                                                         *)
(* Byte counts (i64 in the source) are pairs <<m, r>> standing for         *)
(* m * 2^20 + r bytes with 0 <= r < 2^20, because the storage caps in      *)
(* bytes (2^31 and more) do not fit the model checker's integers.  The     *)
(* conversion `as f32` is computed on these pairs with its rounding.       *)
(***************************************************************************)
EXTENDS Integers, Sequences, FiniteSets, TLC

\* The longest link list (user_pictures) the model feeds to the link loop.
MaxLinks == 3

\* The longest link list of the runs that go on through the deletion phase.
MaxCleanupLinks == 2

\* The longest permission list the model feeds to get_user_group.
MaxGrants == 2

\* The longest share list the model feeds to cleanup_share.
MaxShares == 2

\* The longest link list of the runs over a picture table that holds the pid
\* "added".
MaxSentinelLinks == 2

\* The longest link list of the runs over the trees of the sweep and the
\* pruning.
MaxSweepLinks == 1

\* 1024.0 * 1024.0, the divisor of `/ 1024.0 / 1024.0`.
MiB == 1048576

\* The width of an f32 significand (IEEE 754 binary32).
F32Bits == 24

------------------------------------------------------------------------------
(* Arithmetic on byte counts                                                *)

RECURSIVE Pow2(_)
Pow2(n) == IF n = 0 THEN 1 ELSE 2 * Pow2(n - 1)

\* floor(log2 n) for n >= 1.
Log2(n) == CHOOSE k \in 0..30 : Pow2(k) <= n /\ (k = 30 \/ n < Pow2(k + 1))

\* used + picture.size on i64 (the sums of the model stay far below 2^63).
AddBytes(a, b) ==
    LET r == a[2] + b[2]
    IN  <<a[1] + b[1] + (r \div MiB), r % MiB>>

\* a < b on byte counts, exactly.
LessBytes(a, b) == a[1] < b[1] \/ (a[1] = b[1] /\ a[2] < b[2])

\* `x as f32`: x rounded to the nearest value with a 24-bit significand, ties
\* to the even significand.  Below 2^24 bytes the conversion is exact; from
\* there on the spacing of the f32 values is ulp = 2^(e - 23) for
\* 2^e <= x < 2^(e+1), which divides 2^20, so only the remainder is rounded.
AsF32(a) ==
    IF a[1] < Pow2(F32Bits - 20)
    THEN a
    ELSE LET ulp  == Pow2(Log2(a[1]) + 20 - (F32Bits - 1))
             q    == a[2] \div ulp
             rest == a[2] % ulp
             quot == a[1] * (MiB \div ulp) + q
             up   == \/ 2 * rest > ulp
                     \/ (2 * rest = ulp /\ quot % 2 = 1)
             r    == (IF up THEN q + 1 ELSE q) * ulp
         IN  IF r = MiB THEN <<a[1] + 1, 0>> ELSE <<a[1], r>>

\* `x as f32 / 1024.0 / 1024.0 >= cap` for a whole number of MiB cap: the two
\* divisions by a power of two are exact in f32.
MiBAtLeast(a, cap) == AsF32(a)[1] >= cap

\* `x as f32 / 1024.0 / 1024.0 > cap` for a whole number of MiB cap.
MiBAbove(a, cap) ==
    LET f == AsF32(a)
    IN  f[1] > cap \/ (f[1] = cap /\ f[2] > 0)

------------------------------------------------------------------------------
(* Quota tiers                                                              *)

DEFAULT_GROUP == [priority |-> 0, storage |-> 2048, restrictions |-> 50]

get_group(name) ==
    CASE name = "started" ->
           [priority |-> 1, storage |-> 10240, restrictions |-> 50]
      [] name = "advanced" ->
           [priority |-> 2, storage |-> 51200, restrictions |-> 100]
      [] name = "professional" ->
           [priority |-> 3, storage |-> 102400, restrictions |-> 999999]
      [] OTHER ->
           [priority |-> 0, storage |-> 2048, restrictions |-> 50]

\* str::to_ascii_lowercase on the tier names the model feeds it.
to_ascii_lowercase(s) ==
    CASE s = "Advanced"     -> "advanced"
      [] s = "PROFESSIONAL" -> "professional"
      [] s = "Started"      -> "started"
      [] OTHER              -> s

\* Local::now(), in days since the epoch, and the days of grace of an
\* expired grant.  Expiry stamps are in the same unit, 0 for "never".
Now == 20000
GraceDays == 180

\* The expiry test with no days of grace.
ExpiredAtOnce(permission) ==
    permission.expiry # 0 /\ permission.expiry < Now

\* permission.expiry != 0 && permission.expiry < (now - 180 days).
Expired(permission) ==
    permission.expiry # 0 /\ permission.expiry < Now - GraceDays

\* The priority test letting a later grant of equal priority replace the entry.
OutranksOrTies(group_new, old) == group_new.priority >= old.priority

\* group_new.priority > old.priority
Outranks(group_new, old) == group_new.priority > old.priority

RECURSIVE GroupLoop(_, _, _)
GroupLoop(permissions, k, permission_map) ==
    IF k > Len(permissions)
    THEN permission_map
    ELSE LET permission == permissions[k]
             group_new  == get_group(to_ascii_lowercase(permission.permission))
             inserted   ==
                 [u \in DOMAIN permission_map \cup {permission.uid} |->
                     IF u = permission.uid
                     THEN <<group_new, permission.expiry>>
                     ELSE permission_map[u]]
         IN  IF permission.available = 0
             THEN GroupLoop(permissions, k + 1, permission_map)
             ELSE IF Expired(permission)
             THEN GroupLoop(permissions, k + 1, permission_map)
             ELSE IF permission.uid \notin DOMAIN permission_map
             THEN GroupLoop(permissions, k + 1, inserted)
             ELSE IF Outranks(group_new, permission_map[permission.uid][1])
             THEN GroupLoop(permissions, k + 1, inserted)
             ELSE GroupLoop(permissions, k + 1, permission_map)

get_user_group(permissions) == GroupLoop(permissions, 1, <<>>)

------------------------------------------------------------------------------
(* Inputs                                                                   *)

\* The uids and pids the inputs are drawn from.
Uids == {1, 2}
Pids == {"p1", "p2"}

\* Picture sizes in bytes: 40 MiB, 50 MiB (the per-file cap of the default
\* tier), 50 MiB + 1 byte, 150 MiB, 51200 MiB (half the storage cap of the
\* professional tier) and 102400 MiB - 1 byte.
Size40      == <<40, 0>>
Size50      == <<50, 0>>
Size50Plus1 == <<50, 1>>
Size150     == <<150, 0>>
SizeHalfCap == <<51200, 0>>
SizeCapLess1 == <<102399, MiB - 1>>

\* A row of the picture table.  Paths are sequences of path components below
\* the storage root "pictures".
PictureRow(pid, size) ==
    [pid |-> pid, size |-> size,
     original  |-> <<"a", pid \o ".jpg">>,
     thumbnail |-> <<"a", pid \o ".thumb.jpg">>,
     watermark |-> <<"b", pid \o ".jpg">>]

\* A row of the permission table.
Grant(uid, name, expiry, available) ==
    [uid |-> uid, permission |-> name, expiry |-> expiry, available |-> available]

\* A storage tree: its files and its directories, as paths below the root.
\* Every file lies in a directory of the tree.
Tree(fs, ds) ==
    [files |-> fs,
     dirs  |-> ds \cup UNION {{SubSeq(f, 1, n) : n \in 1..(Len(f) - 1)} : f \in fs}]

NoTree == Tree({}, {})

\* The paths of the model's storage trees, in the alphabetical order in which
\* glob yields them.
StoragePaths ==
    << <<"a">>, <<"a", "orphan.jpg">>, <<"a", "p1.jpg">>, <<"a", "p1.thumb.jpg">>,
       <<"a", "p2.jpg">>, <<"a", "p2.thumb.jpg">>,
       <<"b">>, <<"b", "p1.jpg">>, <<"b", "p2.jpg">>,
       <<"c">>, <<"c", "README">>, <<"c", "sub">>, <<"c", "sub", "orphan.jpg">> >>

\* The names with no "." in them, which the pattern "*.*" does not match.
DotlessNames == {"a", "b", "c", "README", "sub"}

\* The storage trees of the runs that go on through the deletion phase.
CleanupTrees ==
    {Tree({<<"a", "p1.jpg">>, <<"a", "p2.jpg">>}, {}),
     Tree({<<"a", "orphan.jpg">>, <<"b", "p1.jpg">>}, {})}

\* The picture tables of the model: the first family varies which pictures
\* exist, the second their sizes around the caps.
PictureTables ==
    {{PictureRow("p1", s) : s \in S1} \cup {PictureRow("p2", s) : s \in S2} :
        S1 \in {{}, {Size40}}, S2 \in {{}, {Size40}, {Size150}}}

QuotaPictureTables ==
    {{PictureRow("p1", s1), PictureRow("p2", s2)} :
        s1 \in {Size50, SizeHalfCap},
        s2 \in {Size50Plus1, SizeHalfCap, SizeCapLess1}}

------------------------------------------------------------------------------
(* State                                                                    *)

VARIABLES
    available_users,  \* the uids cleanup_user kept (searched with contains)
    pictures,         \* the picture table, pids unique
    permissions,      \* the permission table, in retrieval order
    user_pictures,    \* the links the loop has taken so far, in order
    permission_map,   \* get_user_group's result
    picture_map,      \* pid -> picture; pid field "added" once claimed
    space_map,        \* uid -> bytes counted so far
    used_vec,
    unused_vec,       \* filled from a HashMap iteration: kept as a set
    disable_vec,
    log,              \* per link taken: the branch run and the usage before it
    pc,               \* where cleanup_pictures (and get_used_pictures in it) stands
    limit,            \* the most links the link table of this run holds
    picture_table,    \* the rows left in the picture table
    link_table,       \* the rows left in the user_picture table
    files,            \* the files below the storage root "pictures"
    dirs,             \* the directories below it
    trash,            \* today's trash directory: base filename -> file copied
    h1,               \* delete_database(unused)
    h2,               \* delete_database(unused_ref)
    h3,               \* delete_file(used)
    h4,               \* get_used_user_picture(unused_ref, user_pictures)
    folders,          \* remove_empty_folder: the entries still to visit
    result,           \* what cleanup_pictures returned
    purge,            \* check_trash_dir: the trash root and where the purge stands
    share             \* cleanup_share: the share table and where the loop stands

checkVars == <<available_users, pictures, permissions, user_pictures,
               permission_map, picture_map, space_map, used_vec, unused_vec,
               disable_vec, log>>

cleanupVars == <<picture_table, link_table, files, dirs, trash,
                 h1, h2, h3, h4, folders, result>>

\* The state of the two phases around cleanup_pictures.
sideVars == <<purge, share>>

vars == <<checkVars, pc, limit, sideVars, cleanupVars>>

\* A unit that has not been spawned.
Idle == [status |-> "idle"]

\* get_used_pictures up to the link loop: the maps built, the vectors empty.
Enter(users, pics, perms, max, tree) ==
    /\ limit = max
    /\ picture_table = pics
    /\ link_table = {}
    /\ files = tree.files
    /\ dirs = tree.dirs
    /\ trash = <<>>
    /\ h1 = Idle /\ h2 = Idle /\ h3 = Idle /\ h4 = Idle
    /\ purge = Idle /\ share = Idle
    /\ folders = <<>>
    /\ result = <<>>
    /\ available_users = users
    /\ pictures = pics
    /\ permissions = perms
    /\ user_pictures = <<>>
    /\ permission_map = get_user_group(perms)
    /\ picture_map = [pid \in {p.pid : p \in pics} |->
                         CHOOSE p \in pics : p.pid = pid]
    /\ space_map = <<>>
    /\ used_vec = <<>>
    /\ unused_vec = {}
    /\ disable_vec = <<>>
    /\ log = <<>>
    /\ pc = "links"

Init ==
    \/ \E users \in {{1, 2}, {1}}, pics \in PictureTables,
          perms \in {<<>>, <<Grant(1, "Advanced", 0, 1)>>} :
          Enter(users, pics, perms, MaxLinks, NoTree)
    \/ \E pics \in QuotaPictureTables,
          perms \in {<<>>, <<Grant(1, "professional", 0, 1)>>} :
          Enter({1, 2}, pics, perms, MaxLinks, NoTree)
    \/ Enter({1, 2}, {PictureRow("p1", Size40), PictureRow("p2", Size150)},
             <<Grant(1, "PROFESSIONAL", Now - 200, 1)>>, MaxLinks, NoTree)

------------------------------------------------------------------------------
(* get_used_pictures: the link loop                                         *)

\* space_map.get(&uid), None read as 0.
SpaceUsed(uid) ==
    IF uid \in DOMAIN space_map THEN space_map[uid] ELSE <<0, 0>>

\* The fallback taking the widest tier instead of the default group.
GroupOfWidest(uid) ==
    IF uid \in DOMAIN permission_map
    THEN permission_map[uid][1]
    ELSE get_group("professional")

\* permission_map.get(&uid), None read as the default group.
GroupOf(uid) ==
    IF uid \in DOMAIN permission_map THEN permission_map[uid][1] ELSE DEFAULT_GROUP

\* Variants of the tests below, each a slip the loop could have made.
EnabledAlways(user_picture) == TRUE
UserAvailableAlways(uid) == TRUE
AlreadyAddedNever(picture) == FALSE
NoSpaceStrict(used, group) == MiBAbove(used, group.storage)
TooBigInclusive(size, group) == MiBAtLeast(size, group.restrictions)
MarkAddedForgotten(picture) == picture

\* user_picture.available == 1
Enabled(user_picture) == user_picture.available = 1

\* available_users.contains(&user_picture.uid)
UserAvailable(uid) == uid \in available_users

\* picture.pid == "added": an earlier link claimed the picture.
AlreadyAdded(picture) == picture.pid = "added"

\* used as f32 / 1024.0 / 1024.0 >= group.storage
NoSpace(used, group) == MiBAtLeast(used, group.storage)

\* picture.size as f32 / 1024.0 / 1024.0 > group.restrictions
TooBig(size, group) == MiBAbove(size, group.restrictions)

\* picture::Model { pid: "added", ..picture.clone() }
MarkAdded(picture) == [picture EXCEPT !.pid = "added"]

\* The branch of the loop body a link runs.
Branch(user_picture) ==
    IF Enabled(user_picture)
    THEN IF user_picture.pid \notin DOMAIN picture_map
         THEN "dangling"
         ELSE IF ~UserAvailable(user_picture.uid)
         THEN "no_user"
         ELSE IF ~AlreadyAdded(picture_map[user_picture.pid])
         THEN LET picture == picture_map[user_picture.pid]
                  used    == AddBytes(SpaceUsed(user_picture.uid), picture.size)
                  group   == GroupOf(user_picture.uid)
              IN  IF NoSpace(used, group) THEN "no_space"
                  ELSE IF TooBig(picture.size, group) THEN "too_big"
                  ELSE "accepted"
         ELSE "claimed"
    ELSE "disabled"

DisablingBranches == {"disabled", "dangling", "no_user", "no_space", "too_big"}

\* The loop body with space_map.insert moved above the two quota checks: a
\* link turned away for space or for size is charged all the same.
LinkBodyChargingFirst(user_picture) ==
    LET branch == Branch(user_picture)
    IN  /\ disable_vec' = IF branch \in DisablingBranches
                          THEN Append(disable_vec, user_picture)
                          ELSE disable_vec
        /\ IF branch \in {"accepted", "no_space", "too_big"}
           THEN LET picture == picture_map[user_picture.pid]
                    used    == AddBytes(SpaceUsed(user_picture.uid), picture.size)
                IN  space_map' =
                       [u \in DOMAIN space_map \cup {user_picture.uid} |->
                           IF u = user_picture.uid THEN used ELSE space_map[u]]
           ELSE UNCHANGED space_map
        /\ IF branch = "accepted"
           THEN LET picture == picture_map[user_picture.pid]
                IN  /\ used_vec' = Append(used_vec, picture)
                    /\ picture_map' =
                           [picture_map EXCEPT ![user_picture.pid] = MarkAdded(picture)]
           ELSE UNCHANGED <<used_vec, picture_map>>
        /\ log' = Append(log, [branch |-> branch,
                               before |-> SpaceUsed(user_picture.uid),
                               space_map |-> space_map',
                               picture_map |-> picture_map',
                               used_vec |-> used_vec'])

\* The loop body.  log records, per link, the branch it ran, the owner's
\* usage before it and the maps and vectors after it.
LinkBody(user_picture) ==
    LET branch == Branch(user_picture)
    IN  /\ disable_vec' = IF branch \in DisablingBranches
                          THEN Append(disable_vec, user_picture)
                          ELSE disable_vec
        /\ IF branch = "accepted"
           THEN LET picture == picture_map[user_picture.pid]
                    used    == AddBytes(SpaceUsed(user_picture.uid), picture.size)
                IN  /\ space_map' =
                           [u \in DOMAIN space_map \cup {user_picture.uid} |->
                               IF u = user_picture.uid THEN used ELSE space_map[u]]
                    /\ used_vec' = Append(used_vec, picture)
                    /\ picture_map' =
                           [picture_map EXCEPT ![user_picture.pid] = MarkAdded(picture)]
           ELSE UNCHANGED <<space_map, used_vec, picture_map>>
        /\ log' = Append(log, [branch |-> branch,
                               before |-> SpaceUsed(user_picture.uid),
                               space_map |-> space_map',
                               picture_map |-> picture_map',
                               used_vec |-> used_vec'])

\* One turn of `for user_picture in user_pictures`.
ProcessLink ==
    /\ pc = "links"
    /\ Len(user_pictures) < limit
    /\ \E uid \in Uids, pid \in Pids \cup {p.pid : p \in pictures},
          available \in {0, 1} :
          LET user_picture == [id |-> Len(user_pictures) + 1, uid |-> uid,
                               pid |-> pid, available |-> available]
          IN  /\ user_pictures' = Append(user_pictures, user_picture)
              /\ link_table' = link_table \cup {user_picture}
              /\ LinkBody(user_picture)
    /\ UNCHANGED <<available_users, pictures, permissions, permission_map,
                   unused_vec, pc, limit, sideVars, picture_table, files, dirs, trash,
                   h1, h2, h3, h4, folders, result>>

\* The link list is exhausted: the loop over picture_map fills unused_vec and
\* the function returns.
CollectUnused ==
    /\ pc = "links"
    /\ unused_vec' = {picture_map[pid] : pid \in
                         {k \in DOMAIN picture_map : picture_map[k].pid # "added"}}
    /\ pc' = "returned"
    /\ UNCHANGED <<available_users, pictures, permissions, user_pictures,
                   permission_map, picture_map, space_map, used_vec,
                   disable_vec, log, limit, sideVars, cleanupVars>>

Next == ProcessLink \/ CollectUnused

Spec == Init /\ [][Next]_vars

\* get_used_pictures over a picture table in which a row bears the pid
\* "added", the string the loop writes into a claimed entry of picture_map.
InitSentinel ==
    \E pics \in {{PictureRow("added", Size40)},
                 {PictureRow("added", Size40), PictureRow("p1", Size40)}} :
       Enter({1, 2}, pics, <<>>, MaxSentinelLinks, NoTree)

SpecSentinel == InitSentinel /\ [][Next]_vars

------------------------------------------------------------------------------
(* cleanup_pictures: the deletion phase                                     *)

\* glob(pattern): the paths of `set` in the order glob yields them.
Glob(set) == SelectSeq(StoragePaths, LAMBDA path : path \in set)

BaseName(path) == path[Len(path)]

\* `name` matches "*.*".
HasDot(name) == name \notin DotlessNames

\* The entries directly inside directory `dir` (<<>> is the storage root).
Children(dir) ==
    {path \in files \cup dirs :
        Len(path) = Len(dir) + 1 /\ SubSeq(path, 1, Len(dir)) = dir}

\* The orders in which a Vec filled from a HashMap iteration can hold `set`.
Orders(set) ==
    {seq \in [1..Cardinality(set) -> set] :
        \A i, j \in 1..Cardinality(set) : i # j => seq[i] # seq[j]}

\* get_used_user_picture without its `contains` test.
get_used_user_picture_unfiltered(unused_user_pictures, all_user_pictures) ==
    [k \in DOMAIN all_user_pictures |-> all_user_pictures[k].id]

get_used_user_picture(unused_user_pictures, all_user_pictures) ==
    LET kept == SelectSeq(all_user_pictures,
                          LAMBDA user_picture :
                              ~\E k \in DOMAIN unused_user_pictures :
                                  unused_user_pictures[k] = user_picture)
    IN  [k \in DOMAIN kept |-> kept[k].id]

\* delete_file's used_list built from the original paths only.
UsedListOfOriginals(used) == {used[k].original : k \in DOMAIN used}

\* delete_file's used_list: the three paths of every used picture.
UsedList(used) ==
    UNION {{used[k].original, used[k].thumbnail, used[k].watermark} :
              k \in DOMAIN used}

\* A unit whose loop has nothing left runs to its end without another await.
Settle(h) == IF h.todo = <<>> THEN [h EXCEPT !.status = "finished"] ELSE h

\* The four spawns.  unused is a Vec in the order the HashMap iteration gave;
\* delete_file passes over the paths of used_list without an await, so its
\* todo holds the other paths "pictures/**/*.*" yields.
SpawnUnits ==
    /\ pc = "returned"
    /\ pc' = "await1"
    /\ \E order \in Orders(unused_vec) :
          h1' = Settle([status |-> "running", todo |-> order, attempts |-> <<>>])
    /\ h2' = Settle([status |-> "running", todo |-> disable_vec, attempts |-> <<>>])
    /\ h3' = Settle([status |-> "running",
                     todo |-> Glob({path \in files \cup dirs :
                                       /\ HasDot(BaseName(path))
                                       /\ path \notin UsedList(used_vec)}),
                     copied |-> FALSE])
    /\ h4' = [status |-> "running"]
    /\ UNCHANGED <<checkVars, limit, sideVars, picture_table, link_table, files, dirs,
                   trash, folders, result>>

\* The outcomes of `picture.delete(&db).await`: Ok with one row affected, Ok
\* with none (the row was gone already), Err.
DeleteOutcomes == {"ok1", "ok0", "err"}

\* One turn of delete_database's loop.  Ok(a) asserts a.rows_affected == 1,
\* which panics the unit; Err is logged.
delete_database(h, table, outcome) ==
    LET row  == Head(h.todo)
        done == [h EXCEPT !.attempts = Append(@, <<row, outcome>>)]
    IN  CASE outcome = "ok1" ->
               [unit |-> Settle([done EXCEPT !.todo = Tail(@)]),
                table |-> table \ {row}]
          [] outcome = "ok0" ->
               [unit |-> [done EXCEPT !.status = "panicked"],
                table |-> table]
          [] outcome = "err" ->
               [unit |-> Settle([done EXCEPT !.todo = Tail(@)]),
                table |-> table]

\* The process is alive: cleanup_pictures has spawned and has not panicked.
Running == pc \in {"await1", "await2", "await3", "prune", "await4"}

DeleteUnused ==
    /\ Running /\ h1.status = "running"
    /\ \E outcome \in DeleteOutcomes :
          LET after == delete_database(h1, picture_table, outcome)
          IN  h1' = after.unit /\ picture_table' = after.table
    /\ UNCHANGED <<checkVars, pc, limit, sideVars, link_table, files, dirs, trash,
                   h2, h3, h4, folders, result>>

DeleteDisabled ==
    /\ Running /\ h2.status = "running"
    /\ \E outcome \in DeleteOutcomes :
          LET after == delete_database(h2, link_table, outcome)
          IN  h2' = after.unit /\ link_table' = after.table
    /\ UNCHANGED <<checkVars, pc, limit, sideVars, picture_table, files, dirs, trash,
                   h1, h3, h4, folders, result>>

\* delete_file: one await of its loop, fs::copy into the trash directory and
\* then fs::remove_file.  Either may fail, and the unwrap then panics the unit.
DeleteFile ==
    /\ Running /\ h3.status = "running"
    /\ LET name == Head(h3.todo)
       IN  \E ok \in BOOLEAN :
              IF ~ok \/ name \notin files
              THEN /\ h3' = [h3 EXCEPT !.status = "panicked"]
                   /\ UNCHANGED <<files, trash>>
              ELSE IF ~h3.copied
              THEN /\ trash' = [b \in DOMAIN trash \cup {BaseName(name)} |->
                                   IF b = BaseName(name) THEN name ELSE trash[b]]
                   /\ h3' = [h3 EXCEPT !.copied = TRUE]
                   /\ UNCHANGED files
              ELSE /\ files' = files \ {name}
                   /\ h3' = Settle([h3 EXCEPT !.todo = Tail(@), !.copied = FALSE])
                   /\ UNCHANGED trash
    /\ UNCHANGED <<checkVars, pc, limit, sideVars, picture_table, link_table, dirs,
                   h1, h2, h4, folders, result>>

GetUsedUserPicture ==
    /\ Running /\ h4.status = "running"
    /\ h4' = [status |-> "finished",
              value |-> get_used_user_picture(disable_vec, user_pictures)]
    /\ UNCHANGED <<checkVars, pc, limit, sideVars, picture_table, link_table, files, dirs,
                   trash, h1, h2, h3, folders, result>>

\* handleN.await without the unwrap: the caller goes on whatever the unit did.
JoinForgiving(at, h, then) ==
    /\ pc = at
    /\ h.status \in {"finished", "panicked"}
    /\ pc' = then

\* handleN.await.unwrap(): waits for the unit's end and panics if it panicked.
Join(at, h, then) ==
    /\ pc = at
    /\ h.status \in {"finished", "panicked"}
    /\ pc' = IF h.status = "finished" THEN then ELSE "panicked"

\* cleanup_pictures without `handle1.await`: it goes on to the second join.
Join1Unawaited ==
    /\ pc = "await1"
    /\ pc' = "await2"
    /\ UNCHANGED <<checkVars, limit, sideVars, cleanupVars>>

Join1 ==
    /\ Join("await1", h1, "await2")
    /\ UNCHANGED <<checkVars, limit, sideVars, cleanupVars>>

Join2 ==
    /\ Join("await2", h2, "await3")
    /\ UNCHANGED <<checkVars, limit, sideVars, cleanupVars>>

\* The third join; remove_empty_folder starts with glob("pictures/*").
Join3 ==
    /\ Join("await3", h3, "prune")
    /\ folders' = IF h3.status = "finished" THEN Glob(Children(<<>>)) ELSE folders
    /\ UNCHANGED <<checkVars, limit, sideVars, picture_table, link_table, files, dirs,
                   trash, h1, h2, h3, h4, result>>

\* remove_empty_folder: one entry of "pictures/*", or the end.  fs::remove_dir
\* fails on what is not an empty directory (and may fail for the system's own
\* reasons); `?` hands the error to the caller's unwrap.
RemoveEmptyFolder ==
    /\ pc = "prune"
    /\ IF folders = <<>>
       THEN /\ pc' = "await4"
            /\ UNCHANGED <<dirs, folders>>
       ELSE LET entry == Head(folders)
            IN  IF \E inner \in Children(entry) : HasDot(BaseName(inner))
                THEN /\ folders' = Tail(folders)
                     /\ UNCHANGED <<dirs, pc>>
                ELSE \E ok \in BOOLEAN :
                        IF ok /\ entry \in dirs /\ Children(entry) = {}
                        THEN /\ dirs' = dirs \ {entry}
                             /\ folders' = Tail(folders)
                             /\ UNCHANGED pc
                        ELSE /\ pc' = "panicked"
                             /\ UNCHANGED <<dirs, folders>>
    /\ UNCHANGED <<checkVars, limit, sideVars, picture_table, link_table, files, trash,
                   h1, h2, h3, h4, result>>

\* handle4.await.unwrap(), the value cleanup_pictures returns.
Join4 ==
    /\ Join("await4", h4, "done")
    /\ result' = h4.value
    /\ UNCHANGED <<checkVars, limit, sideVars, picture_table, link_table, files, dirs,
                   trash, h1, h2, h3, h4, folders>>

InitCleanup ==
    \E pics \in {{PictureRow("p1", Size40), PictureRow("p2", Size150)}},
       tree \in CleanupTrees :
       Enter({1}, pics, <<>>, MaxCleanupLinks, tree)

NextCleanup ==
    \/ ProcessLink \/ CollectUnused
    \/ SpawnUnits
    \/ DeleteUnused \/ DeleteDisabled \/ DeleteFile \/ GetUsedUserPicture
    \/ Join1 \/ Join2 \/ Join3 \/ RemoveEmptyFolder \/ Join4

SpecCleanup == InitCleanup /\ [][NextCleanup]_vars

\* The storage trees of the runs that look at what the sweep and the pruning
\* do to the tree: the original and the watermark of p1, which share a base
\* filename, beside an empty directory; a file with no picture row two levels
\* below the root; a file whose name has no "." in it.
SweepTrees ==
    {Tree({<<"a", "p1.jpg">>, <<"b", "p1.jpg">>}, {<<"c">>}),
     Tree({<<"a", "p1.jpg">>, <<"c", "sub", "orphan.jpg">>}, {}),
     Tree({<<"a", "p1.jpg">>, <<"c", "README">>}, {})}

\* cleanup_pictures over one picture and the trees above.
InitSweep ==
    \E tree \in SweepTrees :
       Enter({1}, {PictureRow("p1", Size40)}, <<>>, MaxSweepLinks, tree)

SpecSweep == InitSweep /\ [][NextCleanup]_vars

------------------------------------------------------------------------------
(* get_user_group on its own                                                *)

\* The permission rows the lists are made of: tier names as the table may
\* spell them and one that names no tier; no expiry, and expiries 10, 180 and
\* 200 days before now; the available flag 0, 1 and 2.
GrantNames == {"Started", "PROFESSIONAL", "vip"}
GrantExpiries == {0, Now - 10, Now - 180, Now - 200}
GrantFlags == {0, 1, 2}

Grants ==
    {Grant(uid, name, expiry, available) :
        uid \in Uids, name \in GrantNames,
        expiry \in GrantExpiries, available \in GrantFlags}

GrantLists == UNION {[1..n -> Grants] : n \in 0..MaxGrants}

\* get_used_pictures at its call of get_user_group.
InitGroups ==
    /\ permissions \in GrantLists
    /\ permission_map = <<>>
    /\ pc = "groups"
    /\ limit = 0
    /\ available_users = Uids
    /\ pictures = {}
    /\ picture_table = {}
    /\ link_table = {}
    /\ files = {} /\ dirs = {} /\ trash = <<>>
    /\ h1 = Idle /\ h2 = Idle /\ h3 = Idle /\ h4 = Idle
    /\ purge = Idle /\ share = Idle
    /\ folders = <<>>
    /\ result = <<>>
    /\ user_pictures = <<>>
    /\ picture_map = <<>>
    /\ space_map = <<>>
    /\ used_vec = <<>>
    /\ unused_vec = {}
    /\ disable_vec = <<>>
    /\ log = <<>>

\* let permission_map = get_user_group(permissions).await;
GetUserGroup ==
    /\ pc = "groups"
    /\ permission_map' = get_user_group(permissions)
    /\ pc' = "links"
    /\ UNCHANGED <<available_users, pictures, permissions, user_pictures,
                   picture_map, space_map, used_vec, unused_vec, disable_vec,
                   log, limit, sideVars, cleanupVars>>

NextGroups == GetUserGroup

SpecGroups == InitGroups /\ [][NextGroups]_vars

------------------------------------------------------------------------------
(* check_trash_dir: the purge of the trash root                             *)

\* A directory name is the sequence of its characters.
Digits == <<"0", "1", "2", "3", "4", "5", "6", "7", "8", "9">>

IsDigit(c) == \E i \in DOMAIN Digits : Digits[i] = c

DigitValue(c) == (CHOOSE i \in DOMAIN Digits : Digits[i] = c) - 1

\* The digits a numeric item of the format takes at `from`: as many as there
\* are, `most` at most.
DigitRun(name, from, most) ==
    CHOOSE n \in 0..most :
       /\ \A i \in 0..(n - 1) : from + i <= Len(name) /\ IsDigit(name[from + i])
       /\ \/ n = most
          \/ from + n > Len(name)
          \/ ~IsDigit(name[from + n])

RECURSIVE Number(_, _, _)
Number(name, from, n) ==
    IF n = 0 THEN 0
    ELSE Number(name, from, n - 1) * 10 + DigitValue(name[from + n - 1])

IsLeap(y) == (y % 4 = 0 /\ y % 100 # 0) \/ y % 400 = 0

DaysIn(y, m) ==
    IF m = 2 THEN (IF IsLeap(y) THEN 29 ELSE 28)
    ELSE IF m \in {4, 6, 9, 11} THEN 30 ELSE 31

NoDate == [ok |-> FALSE]

\* DateTime::parse_from_str(name + " 00:00:00 +0800", "%Y-%m-%d %H:%M:%S %z")
\* as far as the name goes: %Y takes up to four digits, %m and %d up to two,
\* the literals must follow, the name must end where the appended " 00:00:00
\* +0800" starts, and the fields must make a date of the calendar.
parse_from_str(name) ==
    LET ny == DigitRun(name, 1, 4)
        py == 1 + ny
        nm == DigitRun(name, py + 1, 2)
        pm == py + 1 + nm
        nd == DigitRun(name, pm + 1, 2)
        y  == Number(name, 1, ny)
        m  == Number(name, py + 1, nm)
        d  == Number(name, pm + 1, nd)
    IN  IF ny = 0 \/ py > Len(name) THEN NoDate
        ELSE IF name[py] # "-" THEN NoDate
        ELSE IF nm = 0 \/ pm > Len(name) THEN NoDate
        ELSE IF name[pm] # "-" THEN NoDate
        ELSE IF nd = 0 \/ pm + nd # Len(name) THEN NoDate
        ELSE IF m \notin 1..12 THEN NoDate
        ELSE IF d \notin 1..DaysIn(y, m) THEN NoDate
        ELSE [ok |-> TRUE, y |-> y, m |-> m, d |-> d]

\* The days from 0000-03-01 to the date (Gregorian calendar).
DaysFromCivil(y, m, d) ==
    LET yy == IF m <= 2 THEN y - 1 ELSE y
        mm == IF m <= 2 THEN m + 9 ELSE m - 3
    IN  365 * yy + (yy \div 4) - (yy \div 100) + (yy \div 400)
        + ((153 * mm + 2) \div 5) + d - 1

\* An instant, in hours: `hour` o'clock of the date on the +08:00 clock.
Instant(date, hour) == DaysFromCivil(date.y, date.m, date.d) * 24 - 8 + hour

\* Local::now() of the runs of the model: 2024-03-10, at one of PurgeHours
\* o'clock (+08:00).
NowDate == [ok |-> TRUE, y |-> 2024, m |-> 3, d |-> 10]
PurgeHours == {0, 9}

\* now.checked_sub_days(Days::new(7))
a_week_earlier(now) == now - 7 * 24

\* date <= a_week_earlier
OutdatedInclusive(date, now) == Instant(date, 0) <= a_week_earlier(now)

\* date < a_week_earlier
Outdated(date, now) == Instant(date, 0) < a_week_earlier(now)

\* now.format("%Y-%m-%d")
FormatDate(date) ==
    LET digit(n) == Digits[n + 1]
    IN  <<digit(date.y \div 1000), digit((date.y \div 100) % 10),
          digit((date.y \div 10) % 10), digit(date.y % 10), "-",
          digit(date.m \div 10), digit(date.m % 10), "-",
          digit(date.d \div 10), digit(date.d % 10)>>

\* The names the trash root may hold, in the order glob("trash/*") yields.
TrashNames ==
    << <<"2", "0", "2", "0", "-", "0", "1", "-", "0", "1">>,
       <<"2", "0", "2", "4", "-", "0", "2", "-", "3", "0">>,
       <<"2", "0", "2", "4", "-", "0", "3", "-", "0", "2">>,
       <<"2", "0", "2", "4", "-", "0", "3", "-", "0", "3">>,
       <<"2", "0", "2", "4", "-", "0", "3", "-", "0", "8">>,
       <<"n", "o", "t", "-", "a", "-", "d", "a", "t", "e">> >>

\* check_trash_dir at its loop over glob("trash/*"); `found` keeps what the
\* trash root held then.
InitTrash ==
    /\ \E hour \in PurgeHours, entries \in SUBSET {TrashNames[i] : i \in DOMAIN TrashNames} :
          purge = [status |-> "scan", now |-> Instant(NowDate, hour),
                   found |-> entries, entries |-> entries,
                   todo |-> SelectSeq(TrashNames, LAMBDA name : name \in entries),
                   errors |-> <<>>, trash_name |-> <<>>]
    /\ share = Idle
    /\ pc = "trash"
    /\ limit = 0
    /\ available_users = {}
    /\ pictures = {} /\ permissions = <<>> /\ user_pictures = <<>>
    /\ permission_map = <<>> /\ picture_map = <<>> /\ space_map = <<>>
    /\ used_vec = <<>> /\ unused_vec = {} /\ disable_vec = <<>> /\ log = <<>>
    /\ picture_table = {} /\ link_table = {}
    /\ files = {} /\ dirs = {} /\ trash = <<>>
    /\ h1 = Idle /\ h2 = Idle /\ h3 = Idle /\ h4 = Idle
    /\ folders = <<>> /\ result = <<>>

\* One entry of glob("trash/*"): an unparseable name is logged and passed
\* over; an outdated directory is removed, or the unwrap panics if
\* fs::remove_dir_all fails.
PurgeEntry ==
    /\ purge.status = "scan" /\ purge.todo # <<>>
    /\ LET name == Head(purge.todo)
           date == parse_from_str(name)
           next == [purge EXCEPT !.todo = Tail(@)]
       IN  IF ~date.ok
           THEN purge' = [next EXCEPT !.errors = Append(@, name)]
           ELSE IF Outdated(date, purge.now)
           THEN \E ok \in BOOLEAN :
                   purge' = IF ok
                            THEN [next EXCEPT !.entries = @ \ {name}]
                            ELSE [purge EXCEPT !.status = "panicked"]
           ELSE purge' = next
    /\ UNCHANGED <<checkVars, pc, limit, share, cleanupVars>>

\* After the loop: fs::create_dir_all("trash/<today>"), which may fail, and
\* the return of its name.
CreateTrashDir ==
    /\ purge.status = "scan" /\ purge.todo = <<>>
    /\ \E ok \in BOOLEAN :
          purge' = IF ok
                   THEN [purge EXCEPT !.status = "done",
                                      !.entries = @ \cup {FormatDate(NowDate)},
                                      !.trash_name = FormatDate(NowDate)]
                   ELSE [purge EXCEPT !.status = "panicked"]
    /\ UNCHANGED <<checkVars, pc, limit, share, cleanupVars>>

NextTrash == PurgeEntry \/ CreateTrashDir

SpecTrash == InitTrash /\ [][NextTrash]_vars

------------------------------------------------------------------------------
(* cleanup_share                                                            *)

\* now.timestamp_millis() of the runs of the model, and the expiries of the
\* share rows around it.
ShareNow == 1000
ShareExpiries == {ShareNow - 1, ShareNow, ShareNow + 1}

\* The link ids a share row may carry: two that links bear and one more.
ShareLinkIds == {1, 2, 3}

\* A row of the share table: `id` is the id of the link the share points at
\* (the field cleanup_share looks up in user_picture_list); `sid` tells the
\* rows apart.
ShareRow(sid, id, uid, expiry) ==
    [sid |-> sid, id |-> id, uid |-> uid, expiry |-> expiry]

\* cleanup_share at its loop: available_users and the list cleanup_pictures
\* returned (here `result`) are its arguments.
InitShare ==
    /\ available_users \in {{1}, {1, 2}}
    /\ result \in {<<>>, <<1>>, <<1, 2>>}
    /\ share = [status |-> "loop", now |-> ShareNow, shares |-> <<>>,
                table |-> {}, deleted |-> <<>>]
    /\ purge = Idle
    /\ pc = "share"
    /\ limit = 0
    /\ pictures = {} /\ permissions = <<>> /\ user_pictures = <<>>
    /\ permission_map = <<>> /\ picture_map = <<>> /\ space_map = <<>>
    /\ used_vec = <<>> /\ unused_vec = {} /\ disable_vec = <<>> /\ log = <<>>
    /\ picture_table = {} /\ link_table = {}
    /\ files = {} /\ dirs = {} /\ trash = <<>>
    /\ h1 = Idle /\ h2 = Idle /\ h3 = Idle /\ h4 = Idle
    /\ folders = <<>>

\* The third test always passing.
LinkSurvivesAlways(row) == TRUE

\* The second test deleting a share at the very instant of its expiry too.
SharePastOrAtExpiry(row) == share.now >= row.expiry

\* available_users.contains(&share.uid)
ShareUserAvailable(row) == row.uid \in available_users

\* now.timestamp_millis() > share.expiry
SharePastExpiry(row) == share.now > row.expiry

\* user_picture_list.contains(&share.id)
LinkSurvives(row) == \E k \in DOMAIN result : result[k] = row.id

\* The three tests of the loop body, in order: does the row get deleted?
ShareDeleted(row) ==
    IF ~ShareUserAvailable(row) THEN TRUE
    ELSE IF SharePastExpiry(row) THEN TRUE
    ELSE ~LinkSurvives(row)

\* One turn of `for share in shares`: share.delete(db).await.unwrap() removes
\* the row, or panics on a database error.
ProcessShare ==
    /\ share.status = "loop"
    /\ Len(share.shares) < MaxShares
    /\ \E id \in ShareLinkIds, uid \in Uids, expiry \in ShareExpiries :
          LET row   == ShareRow(Len(share.shares) + 1, id, uid, expiry)
              taken == [share EXCEPT !.shares = Append(@, row)]
          IN  IF ShareDeleted(row)
              THEN \E ok \in BOOLEAN :
                      share' = IF ok
                               THEN [taken EXCEPT !.deleted = Append(@, row.sid)]
                               ELSE [taken EXCEPT !.table = @ \cup {row},
                                                  !.status = "panicked"]
              ELSE share' = [taken EXCEPT !.table = @ \cup {row}]
    /\ UNCHANGED <<checkVars, pc, limit, purge, cleanupVars>>

\* The share list is exhausted and cleanup_share returns.
ReturnShare ==
    /\ share.status = "loop"
    /\ share' = [share EXCEPT !.status = "returned"]
    /\ UNCHANGED <<checkVars, pc, limit, purge, cleanupVars>>

NextShare == ProcessShare \/ ReturnShare

SpecShare == InitShare /\ [][NextShare]_vars

------------------------------------------------------------------------------
(* Vocabulary of the properties                                             *)

Links == 1..Len(user_pictures)

HasPicture(pid) == \E p \in pictures : p.pid = pid

PictureOf(pid) == CHOOSE p \in pictures : p.pid = pid

Count(vec, x) == Cardinality({k \in DOMAIN vec : vec[k] = x})

InVec(vec, x) == \E k \in DOMAIN vec : vec[k] = x

\* The storage cap of a group in bytes.
CapBytes(group) == <<group.storage, 0>>

\* The state link k found: the maps and the vector as the link before it left
\* them.
SpaceBefore(k) == IF k = 1 THEN <<>> ELSE log[k - 1].space_map
UsedBefore(k) == IF k = 1 THEN <<>> ELSE log[k - 1].used_vec
MapBefore(k) ==
    IF k = 1
    THEN [pid \in {p.pid : p \in pictures} |-> PictureOf(pid)]
    ELSE log[k - 1].picture_map

\* Link k is enabled, its user is available and its picture exists.
Eligible(k) ==
    /\ user_pictures[k].available = 1
    /\ user_pictures[k].uid \in available_users
    /\ HasPicture(user_pictures[k].pid)

\* The owner's usage with link k's picture added, at k's turn.
TotalAt(k) == AddBytes(log[k].before, PictureOf(user_pictures[k].pid).size)

\* Link k passes the two quota checks of the loop at its turn.
WithinQuota(k) ==
    LET group == GroupOf(user_pictures[k].uid)
    IN  /\ ~MiBAtLeast(TotalAt(k), group.storage)
        /\ ~MiBAbove(PictureOf(user_pictures[k].pid).size, group.restrictions)

\* No link before k was accepted for k's picture.
Unclaimed(k) ==
    \A h \in 1..(k - 1) :
        ~(log[h].branch = "accepted" /\ user_pictures[h].pid = user_pictures[k].pid)

\* Link k left every map and vector but disable_vec as it found them.
Untouched(k) ==
    /\ log[k].space_map = SpaceBefore(k)
    /\ log[k].used_vec = UsedBefore(k)
    /\ log[k].picture_map = MapBefore(k)

------------------------------------------------------------------------------
(* C1: of two enabled links of available users to the same picture, each    *)
(* within quota, the first (L1, with no such link before it) is accepted    *)
(* and charged the picture's size once; the picture is in used_vec once;    *)
(* the second (L2) is not disabled and changes no usage.                    *)

DedupCase(i, j) ==
    /\ i < j
    /\ user_pictures[i].pid = user_pictures[j].pid
    /\ Eligible(i) /\ Eligible(j)
    /\ WithinQuota(i) /\ WithinQuota(j)
    /\ \A h \in 1..(i - 1) :
          ~(user_pictures[h].pid = user_pictures[i].pid
            /\ Eligible(h) /\ WithinQuota(h))

C1_FirstLinkCharged ==
    \A i \in Links, j \in Links :
        DedupCase(i, j) =>
            LET uid == user_pictures[i].uid
                picture == PictureOf(user_pictures[i].pid)
            IN  /\ log[i].branch = "accepted"
                /\ log[i].space_map[uid] = AddBytes(log[i].before, picture.size)
                /\ \A u \in DOMAIN log[i].space_map \ {uid} :
                      u \in DOMAIN SpaceBefore(i)
                      /\ log[i].space_map[u] = SpaceBefore(i)[u]
                /\ log[j].branch = "claimed"
                /\ log[j].space_map = SpaceBefore(j)
                /\ Count(used_vec, picture) = 1
                /\ ~InVec(disable_vec, user_pictures[j])

C1_Witness ==
    /\ pc = "returned"
    /\ \E i \in Links, j \in Links :
          /\ DedupCase(i, j)
          /\ user_pictures[i].uid # user_pictures[j].uid
          /\ log[j].branch = "claimed"
          /\ space_map = <<>> @@ (user_pictures[i].uid :> Size40)

------------------------------------------------------------------------------
(* C2: user 1 available with a grant of the advanced tier, P1 of 40 MiB,    *)
(* P2 of 150 MiB, links L1, L2 to P1 and L3 to P2: used_vec is <<P1>>,      *)
(* unused_vec {P2}, disable_vec <<L3>>, and user 1 is charged 40 MiB.       *)

ScenarioP1 == PictureRow("p1", Size40)
ScenarioP2 == PictureRow("p2", Size150)
ScenarioLink(id, pid) == [id |-> id, uid |-> 1, pid |-> pid, available |-> 1]

ScenarioInput ==
    /\ 1 \in available_users
    /\ permissions = <<Grant(1, "Advanced", 0, 1)>>
    /\ GroupOf(1).storage = 51200 /\ GroupOf(1).restrictions = 100
    /\ pictures = {ScenarioP1, ScenarioP2}
    /\ user_pictures = <<ScenarioLink(1, "p1"), ScenarioLink(2, "p1"),
                         ScenarioLink(3, "p2")>>

C2_Scenario ==
    (ScenarioInput /\ pc = "returned") =>
        /\ used_vec = <<ScenarioP1>>
        /\ unused_vec = {ScenarioP2}
        /\ disable_vec = <<ScenarioLink(3, "p2")>>
        /\ ~InVec(disable_vec, ScenarioLink(1, "p1"))
        /\ ~InVec(disable_vec, ScenarioLink(2, "p1"))
        /\ SpaceUsed(1) = Size40

C2_Witness == ScenarioInput /\ pc = "returned"

------------------------------------------------------------------------------
(* C3: a link whose uid is not in available_users is in disable_vec,        *)
(* whatever its flag, its picture and the usage; it claims no picture and   *)
(* changes no usage.                                                        *)

C3_UnavailableUserDisabled ==
    \A k \in Links :
        user_pictures[k].uid \notin available_users =>
            /\ Count(disable_vec, user_pictures[k]) = 1
            /\ log[k].branch \in DisablingBranches
            /\ Untouched(k)

C3_Witness ==
    /\ pc = "returned"
    /\ \E k \in Links :
          /\ user_pictures[k].uid \notin available_users
          /\ user_pictures[k].available = 1
          /\ HasPicture(user_pictures[k].pid)
          /\ Unclaimed(k)
          /\ WithinQuota(k)
          /\ log[k].branch = "no_user"

------------------------------------------------------------------------------
(* C4: an enabled link of an available user to an unclaimed picture whose   *)
(* size brings the owner's usage to exactly the storage cap is disabled     *)
(* and claims nothing; a link passes the storage check only with a total    *)
(* strictly below the cap.                                                  *)

AtCap(k) ==
    /\ Eligible(k)
    /\ Unclaimed(k)
    /\ TotalAt(k) = CapBytes(GroupOf(user_pictures[k].uid))

C4_ExactCapDisabled ==
    \A k \in Links :
        /\ AtCap(k) =>
              /\ InVec(disable_vec, user_pictures[k])
              /\ Untouched(k)
        /\ log[k].branch \in {"too_big", "accepted"} =>
              LessBytes(TotalAt(k), CapBytes(GroupOf(user_pictures[k].uid)))

C4_Witness ==
    /\ pc = "returned"
    /\ \E k \in Links :
          /\ AtCap(k)
          /\ log[k].before # <<0, 0>>
          /\ ~MiBAbove(PictureOf(user_pictures[k].pid).size,
                       GroupOf(user_pictures[k].uid).restrictions)
          /\ log[k].branch = "no_space"

------------------------------------------------------------------------------
(* C5: an enabled link of an available user to an unclaimed picture whose   *)
(* size is strictly greater than the per-file cap is disabled, also with    *)
(* storage to spare; a size equal to the per-file cap is not rejected by    *)
(* the per-file check.                                                      *)

PerFileBytes(group) == <<group.restrictions, 0>>

C5_OversizeDisabled ==
    \A k \in Links :
        (Eligible(k) /\ Unclaimed(k)) =>
            LET size == PictureOf(user_pictures[k].pid).size
                cap  == PerFileBytes(GroupOf(user_pictures[k].uid))
            IN  /\ LessBytes(cap, size) => InVec(disable_vec, user_pictures[k])
                /\ size = cap => log[k].branch # "too_big"

------------------------------------------------------------------------------
(* C6: after every link, each user's usage in space_map is the sum of the   *)
(* sizes of the pictures that user's accepted links claimed, is not above   *)
(* the storage cap of the user's tier, and every picture counted is not     *)
(* above the tier's per-file cap.                                           *)

RECURSIVE SumAccepted(_, _)
SumAccepted(uid, k) ==
    IF k = 0
    THEN <<0, 0>>
    ELSE IF log[k].branch = "accepted" /\ user_pictures[k].uid = uid
         THEN AddBytes(SumAccepted(uid, k - 1),
                       PictureOf(user_pictures[k].pid).size)
         ELSE SumAccepted(uid, k - 1)

C6_UsageWithinCaps ==
    /\ \A uid \in Uids :
          /\ SpaceUsed(uid) = SumAccepted(uid, Len(user_pictures))
          /\ ~LessBytes(CapBytes(GroupOf(uid)), SpaceUsed(uid))
    /\ \A k \in Links :
          log[k].branch = "accepted" =>
              ~LessBytes(PerFileBytes(GroupOf(user_pictures[k].uid)),
                         PictureOf(user_pictures[k].pid).size)

------------------------------------------------------------------------------
(* C7: a picture referenced by exactly one enabled link of an available     *)
(* user that is within the storage and per-file caps at its turn is in      *)
(* used_vec exactly once and not in unused_vec.                             *)

QuotaEligibleLinks(picture) ==
    {k \in Links : /\ user_pictures[k].pid = picture.pid
                   /\ Eligible(k)
                   /\ WithinQuota(k)}

------------------------------------------------------------------------------
(* C8: a picture referenced by no link with the available flag set is in    *)
(* unused_vec and not in used_vec.                                          *)

NoEnabledLink(picture) ==
    \A k \in Links :
        ~(user_pictures[k].pid = picture.pid /\ user_pictures[k].available = 1)

SurvivingIds ==
    {user_pictures[k].id : k \in {j \in Links : ~InVec(disable_vec, user_pictures[j])}}

\* C9: the list cleanup_pictures returns holds exactly the ids of the input
\* links that are not in disable_vec, each once; no link id is both disabled
\* and returned; no link is in disable_vec twice.
C9_LinksClassifiedOnce ==
    /\ \A k \in Links : Count(disable_vec, user_pictures[k]) <= 1
    /\ pc = "done" =>
          /\ {result[i] : i \in DOMAIN result} = SurvivingIds
          /\ \A id \in SurvivingIds : Count(result, id) = 1
          /\ \A k \in DOMAIN disable_vec : ~InVec(result, disable_vec[k].id)

\* cleanup_pictures has returned for two links, one disabled and one surviving.
C9_Witness ==
    /\ pc = "done"
    /\ Len(user_pictures) = 2
    /\ Len(disable_vec) = 1
    /\ Len(result) = 1

\* The deletion units of delete_database that have been spawned.
DeleteUnits == {h \in {h1, h2} : h.status # "idle"}

Mismatched(h) == \E i \in DOMAIN h.attempts : h.attempts[i][2] = "ok0"

\* cleanup_pictures stopped for a filesystem failure: the sweep panicked, or
\* the three joins passed and remove_empty_folder failed.
FsAbort ==
    \/ h3.status = "panicked"
    \/ h1.status = "finished" /\ h2.status = "finished" /\ h3.status = "finished"

\* C10: a single-row deletion that does not affect exactly one row is only
\* logged: its unit does not stop there but goes on to its remaining rows, and
\* cleanup_pictures does not abort for it (it goes on to directory pruning).
C10_MismatchIsolated ==
    /\ \A h \in DeleteUnits : Mismatched(h) => h.status # "panicked"
    /\ pc = "panicked" => FsAbort

\* The positions of cleanup_pictures from the start of remove_empty_folder on.
PastJoins == {"prune", "await4", "done"}

\* C11: once a copy or a remove of the filesystem sweep has failed, no file is
\* swept any more (the storage tree's files and the trash stay as they are),
\* directory pruning never starts and cleanup_pictures never returns its list.
C11_SweepFailureAborts ==
    /\ [](h3.status = "panicked" => pc \notin PastJoins)
    /\ [][h3.status = "panicked" =>
            /\ files' = files /\ trash' = trash
            /\ h3' = h3 /\ result' = result]_vars

\* The sweep failed with both of its files still to move, the two database
\* units ended well, and cleanup_pictures stopped at the third join.
C11_Witness ==
    /\ h3.status = "panicked"
    /\ Len(h3.todo) = 2
    /\ h1.status = "finished" /\ h2.status = "finished"
    /\ pc = "panicked"

Finished(h) == h.status = "finished"

\* C12: remove_empty_folder does not start until each of the four units
\* spawned for the deletion phase has completed, and cleanup_pictures returns
\* only after all four have completed.
C12_JoinBarrier ==
    /\ pc = "prune" =>
          Finished(h1) /\ Finished(h2) /\ Finished(h3) /\ Finished(h4)
    /\ pc = "done" =>
          Finished(h1) /\ Finished(h2) /\ Finished(h3) /\ Finished(h4)

\* C12, amended: remove_empty_folder does not start until the two database
\* units and the filesystem sweep have completed; the unit that collects the
\* link ids is joined after it and may still be running meanwhile; and
\* cleanup_pictures returns only after all four have completed.
C12_JoinBarrierBeforePrune ==
    /\ pc \in PastJoins => Finished(h1) /\ Finished(h2) /\ Finished(h3)
    /\ pc = "done" => Finished(h4) /\ result = h4.value

\* Pruning is under way, with a folder left to look at, after both database
\* units deleted rows and the sweep moved files, while the unit that collects
\* the link ids has not run yet.
C12_Witness ==
    /\ pc = "prune" /\ folders # <<>>
    /\ Finished(h1) /\ h1.attempts # <<>>
    /\ Finished(h2) /\ h2.attempts # <<>>
    /\ Finished(h3) /\ DOMAIN trash # {}
    /\ h4.status = "running"

\* The original, thumbnail and watermark paths of the pictures in used_vec.
RetainedPaths ==
    UNION {{used_vec[k].original, used_vec[k].thumbnail, used_vec[k].watermark} :
              k \in DOMAIN used_vec}

\* The paths that have been copied into the trash directory.
Trashed == {trash[b] : b \in DOMAIN trash}

\* The files "pictures/**/*.*" yields in the tree the run started with: those
\* still there and those moved since.
Enumerated == {path \in files \cup Trashed : HasDot(BaseName(path))}

\* C13: after a successful sweep an enumerated file is still in the storage
\* tree iff its path is a path of a used picture, and every other enumerated
\* file is in the trash directory and gone from the tree; no file of a used
\* picture is ever copied or removed.
C13_SweepKeepsUsedFiles ==
    /\ [](Finished(h3) =>
             \A path \in Enumerated :
                /\ path \in files <=> path \in RetainedPaths
                /\ path \notin files =>
                      /\ BaseName(path) \in DOMAIN trash
                      /\ trash[BaseName(path)] = path)
    /\ [](Trashed \cap RetainedPaths = {})
    /\ [][\A path \in RetainedPaths : path \in files => path \in files']_vars

\* The sweep ended well: it moved the file no picture row names and left the
\* watermark of the used picture p1 where it was.
C13_Witness ==
    /\ Finished(h3)
    /\ <<"b", "p1.jpg">> \in files \cap RetainedPaths
    /\ <<"a", "orphan.jpg">> \in Trashed \ files

\* The grants of `uid` that get_user_group is to consider: available and not
\* expired more than 180 days ago.
EligibleGrants(uid) ==
    {k \in DOMAIN permissions :
        /\ permissions[k].uid = uid
        /\ permissions[k].available # 0
        /\ ~(permissions[k].expiry # 0 /\ Now - permissions[k].expiry > 180)}

TierOf(k) == get_group(to_ascii_lowercase(permissions[k].permission))

\* The first of the eligible grants of `uid` that no other one outranks.
Governing(uid) ==
    CHOOSE k \in EligibleGrants(uid) :
       \A j \in EligibleGrants(uid) :
          \/ TierOf(j).priority < TierOf(k).priority
          \/ TierOf(j).priority = TierOf(k).priority /\ k <= j

\* C14: get_user_group gives each uid the tier (and the expiry) of the first
\* of its eligible grants of the highest priority; a uid with no eligible
\* grant has no entry.
C14_HighestEligibleGrant ==
    pc = "links" =>
       \A uid \in Uids :
          IF EligibleGrants(uid) = {}
          THEN uid \notin DOMAIN permission_map
          ELSE /\ uid \in DOMAIN permission_map
               /\ permission_map[uid] =
                     <<TierOf(Governing(uid)), permissions[Governing(uid)].expiry>>

\* Two eligible grants of user 1 of the same tier, the first with an expiry
\* and the second without, have been resolved.
C14_Witness ==
    /\ pc = "links"
    /\ Len(permissions) = 2
    /\ EligibleGrants(1) = {1, 2}
    /\ TierOf(1) = TierOf(2)
    /\ permissions[1].expiry = Now - 10 /\ permissions[2].expiry = 0

\* Days since the expiry of grant k.
ExpiredFor(k) == Now - permissions[k].expiry

\* C15: an available grant with no expiry, or one that expired less than 180
\* days ago, is considered (its user gets a tier of at least its priority); a
\* grant that expired more than 180 days ago is excluded (it never governs,
\* and a user with only such grants gets no entry).
C15_GraceWindow ==
    pc = "links" =>
       /\ \A k \in DOMAIN permissions :
             (/\ permissions[k].available # 0
              /\ permissions[k].expiry = 0 \/ ExpiredFor(k) < 180)
             => /\ permissions[k].uid \in DOMAIN permission_map
                /\ permission_map[permissions[k].uid][1].priority
                      >= TierOf(k).priority
       /\ \A uid \in DOMAIN permission_map :
             permission_map[uid][2] = 0 \/ Now - permission_map[uid][2] <= 180
       /\ \A uid \in Uids :
             (\A k \in DOMAIN permissions :
                 permissions[k].uid = uid =>
                    permissions[k].expiry # 0 /\ ExpiredFor(k) > 180)
             => uid \notin DOMAIN permission_map

\* User 1 holds a grant that expired 10 days ago and has its tier; user 2
\* holds one that expired 200 days ago and has no entry.
C15_Witness ==
    /\ pc = "links"
    /\ permissions = <<Grant(1, "Started", Now - 10, 1),
                       Grant(2, "Started", Now - 200, 1)>>
    /\ DOMAIN permission_map = {1}
    /\ permission_map[1][1].priority = 1

\* What the loop's two quota checks give link k under the caps of the default
\* tier, 2048 MiB in all and 50 MiB per file.
UnderDefaultCaps(k) ==
    IF MiBAtLeast(TotalAt(k), 2048) THEN "no_space"
    ELSE IF MiBAbove(PictureOf(user_pictures[k].pid).size, 50) THEN "too_big"
    ELSE "accepted"

\* Link k reaches the quota checks and no grant resolves for its user.
DefaultCase(k) ==
    /\ Eligible(k) /\ Unclaimed(k)
    /\ EligibleGrants(user_pictures[k].uid) = {}

\* C16: a link whose user has no eligible grant is judged under the default
\* tier (2048 MiB in all, 50 MiB per file): it is accepted, or disabled for
\* space or for size, exactly as those caps say, and is never left unjudged.
C16_DefaultTierApplied ==
    \A k \in Links :
       DefaultCase(k) =>
          /\ log[k].branch = UnderDefaultCaps(k)
          /\ log[k].branch = "accepted" <=> ~InVec(disable_vec, user_pictures[k])

\* User 1 holds only a grant of the widest tier that expired 200 days ago: a
\* link of theirs to the 150 MiB picture was disabled for its size and one to
\* the 40 MiB picture was accepted.
C16_Witness ==
    \E i \in Links, j \in Links :
       /\ permissions # <<>>
       /\ user_pictures[i].uid = 1 /\ user_pictures[j].uid = 1
       /\ DefaultCase(i) /\ log[i].branch = "too_big"
       /\ PictureOf(user_pictures[i].pid).size = Size150
       /\ DefaultCase(j) /\ log[j].branch = "accepted"

\* What the names of the model are, read by a person: the days from the date
\* to today (2024-03-10), or -1 for a name that is no date of the calendar.
DaysAgo(name) ==
    CASE name = <<"2", "0", "2", "0", "-", "0", "1", "-", "0", "1">> -> 1530
      [] name = <<"2", "0", "2", "4", "-", "0", "3", "-", "0", "2">> -> 8
      [] name = <<"2", "0", "2", "4", "-", "0", "3", "-", "0", "3">> -> 7
      [] name = <<"2", "0", "2", "4", "-", "0", "3", "-", "0", "8">> -> 2
      [] OTHER -> -1

\* The hours from the midnight (+08:00) that started today to now.
HoursToday == purge.now - Instant(NowDate, 0)

\* Midnight (+08:00) of the date `name` spells is earlier than now - 7 days.
OlderThanAWeek(name) ==
    DaysAgo(name) >= 0 /\ DaysAgo(name) * 24 + HoursToday > 7 * 24

\* C17: the purge removes a trash subdirectory iff its name is a date whose
\* midnight (+08:00) is earlier than now minus 7 days; a name that is no date
\* is never removed and never stops the purge; a directory dated within the
\* last 7 days is left in place.
C17_TrashPurge ==
    /\ \A name \in purge.found :
          /\ ~OlderThanAWeek(name) => name \in purge.entries
          /\ purge.status = "done" =>
                (name \notin purge.entries <=> OlderThanAWeek(name))
          /\ purge.status = "done" /\ DaysAgo(name) = -1 =>
                InVec(purge.errors, name)
    /\ purge.status = "panicked" /\ purge.todo # <<>> =>
          OlderThanAWeek(Head(purge.todo))

\* The purge ran at nine o'clock over all the names of the model: the three
\* directories dated 7 days back and more are gone, the one of two days ago
\* and the two names that are no dates are in place.
C17_Witness ==
    /\ purge.status = "done"
    /\ Len(purge.errors) = 2
    /\ HoursToday = 9
    /\ purge.found \ purge.entries =
          {<<"2", "0", "2", "0", "-", "0", "1", "-", "0", "1">>,
           <<"2", "0", "2", "4", "-", "0", "3", "-", "0", "2">>,
           <<"2", "0", "2", "4", "-", "0", "3", "-", "0", "3">>}
    /\ purge.found \cap purge.entries =
          {<<"2", "0", "2", "4", "-", "0", "2", "-", "3", "0">>,
           <<"2", "0", "2", "4", "-", "0", "3", "-", "0", "8">>,
           <<"n", "o", "t", "-", "a", "-", "d", "a", "t", "e">>}

\* The share rows the loop has taken.
SharesTaken == {share.shares[k] : k \in DOMAIN share.shares}

\* The three grounds on which a share record is to go.
ShareGround(row) ==
    \/ row.uid \notin available_users
    \/ row.expiry < share.now
    \/ row.id \notin {result[k] : k \in DOMAIN result}

\* C18: cleanup_share deletes a share record iff its user is not available,
\* or it is past its expiry, or the link it points at is not among the
\* surviving link ids; a share with none of the three is kept; no share is
\* deleted twice.
C18_ShareDeletedIff ==
    /\ \A row \in SharesTaken :
          /\ row \notin share.table <=> InVec(share.deleted, row.sid)
          /\ InVec(share.deleted, row.sid) => ShareGround(row)
          /\ share.status # "panicked" =>
                (ShareGround(row) => InVec(share.deleted, row.sid))
          /\ Count(share.deleted, row.sid) <= 1
    /\ \A k \in DOMAIN share.deleted :
          \E row \in SharesTaken : row.sid = share.deleted[k]

\* cleanup_share returned after two shares of the available user 1, both
\* expiring at this very instant: the one pointing at the surviving link 1
\* is kept, the one pointing at link 3, which did not survive, is deleted.
C18_Witness ==
    /\ share.status = "returned"
    /\ result = <<1, 2>>
    /\ share.shares = <<ShareRow(1, 1, 1, ShareNow), ShareRow(2, 3, 1, ShareNow)>>
    /\ share.table = {ShareRow(1, 1, 1, ShareNow)}
    /\ share.deleted = <<2>>

\* Some link was accepted for the picture of this pid.
ClaimedByLink(pid) ==
    \E k \in Links : user_pictures[k].pid = pid /\ log[k].branch = "accepted"

\* C19: whatever the pids of the picture table are, get_used_pictures returns
\* each picture in exactly one of unused_vec and used_vec: in used_vec, once,
\* iff some link claimed it, and in unused_vec otherwise.
C19_EveryPictureClassified ==
    pc = "returned" =>
       \A picture \in pictures :
          /\ picture \in unused_vec <=> ~InVec(used_vec, picture)
          /\ InVec(used_vec, picture) <=> ClaimedByLink(picture.pid)
          /\ Count(used_vec, picture) <= 1
          /\ ~ClaimedByLink(picture.pid) => picture \in unused_vec

\* Link k is in disable_vec.
Disabled(k) == InVec(disable_vec, user_pictures[k])

\* C20: a disabled link, whatever the reason, leaves picture_map, space_map
\* and used_vec as it found them; hence a later enabled link of an available
\* user to a picture no one claimed is accepted whenever it is within quota,
\* whichever links were disabled before it.
C20_DisabledLinkChangesNothing ==
    /\ \A k \in Links : Disabled(k) => Untouched(k)
    /\ \A j \in Links :
          (/\ \E k \in 1..(j - 1) : Disabled(k)
           /\ Eligible(j) /\ Unclaimed(j) /\ WithinQuota(j))
          => /\ log[j].branch = "accepted"
             /\ InVec(used_vec, PictureOf(user_pictures[j].pid))
    /\ \A k \in Links :
          (/\ Disabled(k) /\ k + 1 \in Links
           /\ user_pictures[k + 1].uid = user_pictures[k].uid)
          => log[k + 1].before = log[k].before

\* A link of the unavailable user 2 to p1 and a link of user 1 to the 150 MiB
\* picture p2 were disabled (no user, too big); then user 1's link to the
\* 40 MiB picture p1 was accepted.
C20_Witness ==
    /\ Len(user_pictures) = 3
    /\ log[1].branch = "no_user" /\ user_pictures[1].pid = "p1"
    /\ log[2].branch = "too_big" /\ user_pictures[2].uid = 1
    /\ log[3].branch = "accepted" /\ user_pictures[3].uid = 1
    /\ user_pictures[3].pid = "p1"
    /\ Disabled(1) /\ Disabled(2) /\ ~Disabled(3)

------------------------------------------------------------------------------
(* C21: directory pruning                                                   *)

\* Directory `dir` contains a matching file: an entry directly inside it that
\* "*.*" matches.
Matching(dir) == \E inner \in Children(dir) : HasDot(BaseName(inner))

\* The entry remove_empty_folder is about to remove: the one it stands at, when
\* that has no matching files.
PruneTarget == {entry \in {Head(folders)} : ~Matching(entry)}

\* C21: directory pruning removes exactly the immediate subdirectories of the
\* storage root that contain no matching files: it removes no directory at a
\* deeper level, none that has matching files and none that still holds a
\* file or a nested subdirectory; once it has completed, no immediate
\* subdirectory without matching files is left; and on the tree the sweep
\* left it completes without error, that is, every entry it sets out to
\* remove is a directory with nothing in it.
C21_PruneExactAndClean ==
    /\ [][\A dir \in dirs \ dirs' :
            Len(dir) = 1 /\ ~Matching(dir) /\ Children(dir) = {}]_vars
    /\ [](pc \in {"await4", "done"} =>
            \A dir \in dirs : Len(dir) = 1 => Matching(dir))
    /\ [](pc = "prune" /\ folders # <<>> =>
            \A entry \in PruneTarget : entry \in dirs /\ Children(entry) = {})

------------------------------------------------------------------------------
(* C22: referential integrity of what get_used_pictures returns             *)

\* The surviving links: the links of the input that are not in disable_vec.
SurvivingLinks ==
    {user_pictures[k] : k \in {j \in Links : ~InVec(disable_vec, user_pictures[j])}}

\* The pids of the pictures of a vector or of a set of pictures.
PidsOfVec(vec) == {vec[k].pid : k \in DOMAIN vec}
PidsOfSet(set) == {picture.pid : picture \in set}

\* C22: when get_used_pictures returns, every surviving link has its available
\* flag set, belongs to a user of available_users and references a picture
\* that is in used_vec and not in unused_vec; and every picture of used_vec is
\* referenced by at least one surviving link.
C22_ReferentialIntegrity ==
    pc = "returned" =>
        /\ \A user_picture \in SurvivingLinks :
              /\ user_picture.available = 1
              /\ user_picture.uid \in available_users
              /\ user_picture.pid \in PidsOfVec(used_vec)
              /\ user_picture.pid \notin PidsOfSet(unused_vec)
        /\ \A pid \in PidsOfVec(used_vec) :
              \E user_picture \in SurvivingLinks : user_picture.pid = pid

------------------------------------------------------------------------------
(* C23: no swept file is lost                                               *)

\* Today's trash directory holds a copy of the file at `path`.
HasCopy(path) ==
    BaseName(path) \in DOMAIN trash /\ trash[BaseName(path)] = path

\* C23: a file is removed from the storage tree only when its copy in today's
\* trash directory is complete, and the copy of a file that is gone from the
\* storage tree stays in the trash directory through every later step, so
\* that after the sweep the trash directory holds a copy of every file the
\* sweep removed, files of different subdirectories with one base filename
\* included.
C23_NoSweptFileLost ==
    /\ [][\A path \in files \ files' : HasCopy(path)]_vars
    /\ [][\A path \in Trashed \ files : HasCopy(path)']_vars

====
